---- MODULE Spec2Model ----
(***************************************************************************)
(* Model of the Tiny-URL shortener (src/index.ts, src/utils.ts).           *)
(*                                                                         *)
(* Strings are sequences of UTF-16 code units, as charCodeAt and string    *)
(* indexing see them.  A JavaScript number holding an integer x is the     *)
(* record [hi, lo] with x = hi * 2^16 + lo and lo in 0 .. 2^16 - 1 (hi    *)
(* carries the sign): the hashes of createShortUrl leave the 32-bit range, *)
(* so a number is kept exactly, in two limbs, and only the shift           *)
(* operators wrap to 32 bits, as they do in JavaScript.                    *)
(***************************************************************************)
EXTENDS Integers, Sequences, FiniteSets, TLC

VARIABLES
    urlStorage,   \* utils.ts urlStorage: the map from identifier to original URL
    last,         \* the most recent call of createShortUrl or decodeUrl and what it returned
    remembered,   \* history: one earlier createShortUrl call and what it returned
    overwritten,  \* history: a later call stored another URL at remembered's identifier
    pipe          \* the values of a chain of calls hash -> encodeId -> decodeShortUrl

vars == <<urlStorage, last, remembered, overwritten, pipe>>

(***************************************************************************)
(* Numbers                                                                 *)
(***************************************************************************)
Limb == 2 ^ 16

HalfLimb == 2 ^ 15

Norm(h, l) == [hi |-> h + (l \div Limb), lo |-> l % Limb]

FromInt(n) == Norm(0, n)

NumAdd(a, b) == Norm(a.hi + b.hi, a.lo + b.lo)

NumNeg(a) == Norm(0 - a.hi, 0 - a.lo)

NumSub(a, b) == NumAdd(a, NumNeg(b))

NumIsPositive(a) == a.hi > 0 \/ (a.hi = 0 /\ a.lo > 0)

NumLeq(a, b) == a.hi < b.hi \/ (a.hi = b.hi /\ a.lo <= b.lo)

\* Below, CHOOSE r \in {F(x) : x \in {e}} : TRUE is F(e) with e evaluated once,
\* and \E x \in {e} : A(x) is A(e) with e evaluated once: a local constant of
\* the code (const x = e) is bound this way.

\* ToInt32 of ECMAScript: the value modulo 2^32, read as a signed 32-bit integer.
ToInt32(a) ==
    LET h == a.hi % Limb
    IN  [hi |-> IF h >= HalfLimb THEN h - Limb ELSE h, lo |-> a.lo]

\* x << k for 0 < k <= 16: ToInt32(x) shifted left, wrapped to 32 bits again.
ShiftLeft(a, k) ==
    CHOOSE r \in { ToInt32([hi |-> (v.hi % (2 ^ (16 - k))) * (2 ^ k) + (v.lo \div (2 ^ (16 - k))),
                            lo |-> (v.lo % (2 ^ (16 - k))) * (2 ^ k)]) :
                   v \in {ToInt32(a)} } : TRUE

\* Math.abs
MathAbs(a) == IF a.hi < 0 THEN NumNeg(a) ELSE a

(***************************************************************************)
(* utils.ts: the base-62 codec                                             *)
(***************************************************************************)
CHARACTERS ==
    << 65, 66, 67, 68, 69, 70, 71, 72, 73, 74, 75, 76, 77,
       78, 79, 80, 81, 82, 83, 84, 85, 86, 87, 88, 89, 90,
       97, 98, 99, 100, 101, 102, 103, 104, 105, 106, 107, 108, 109,
       110, 111, 112, 113, 114, 115, 116, 117, 118, 119, 120, 121, 122,
       48, 49, 50, 51, 52, 53, 54, 55, 56, 57 >>

BASE == Len(CHARACTERS)

\* num % BASE and Math.floor(num / BASE) for num >= 0, by long division.
NumModBase(a) == ((a.hi % BASE) * Limb + a.lo) % BASE

NumDivBase(a) ==
    [hi |-> a.hi \div BASE, lo |-> ((a.hi % BASE) * Limb + a.lo) \div BASE]

\* id * BASE + charIndex
NumMulBaseAdd(a, d) == Norm(a.hi * BASE, a.lo * BASE + d)

\* CHARACTERS.indexOf(char), 0-based, -1 when absent.
IndexOf(c) ==
    IF \E i \in 1..Len(CHARACTERS) : CHARACTERS[i] = c
    THEN (CHOOSE i \in 1..Len(CHARACTERS) : CHARACTERS[i] = c) - 1
    ELSE 0 - 1


\* The while loop of encodeId, written with the digits appended instead of
\* prepended (least-significant digit first).
RECURSIVE EncodeLoopAppend(_, _)
EncodeLoopAppend(num, shortUrl) ==
    IF NumIsPositive(num)
    THEN CHOOSE r \in { EncodeLoopAppend(NumDivBase(num), s) :
                        s \in {shortUrl \o <<CHARACTERS[NumModBase(num) + 1]>>} } : TRUE
    ELSE shortUrl

\* The while loop of encodeId, keeping only the last digit computed.
RECURSIVE EncodeLoopLastDigit(_, _)
EncodeLoopLastDigit(num, shortUrl) ==
    IF NumIsPositive(num)
    THEN CHOOSE r \in { EncodeLoopLastDigit(NumDivBase(num), s) :
                        s \in {<<CHARACTERS[NumModBase(num) + 1]>>} } : TRUE
    ELSE shortUrl

\* while (num > 0) { shortUrl = CHARACTERS[num % BASE] + shortUrl; num = floor(num / BASE) }
RECURSIVE EncodeLoop(_, _)
EncodeLoop(num, shortUrl) ==
    IF NumIsPositive(num)
    THEN CHOOSE r \in { EncodeLoop(NumDivBase(num), s) :
                        s \in {<<CHARACTERS[NumModBase(num) + 1]>> \o shortUrl} } : TRUE
    ELSE shortUrl

\* encodeId without the fallback to CHARACTERS[0].
encodeIdNoFallback(id) == EncodeLoop(id, <<>>)

\* return shortUrl || CHARACTERS[0]
encodeId(id) ==
    LET shortUrl == EncodeLoop(id, <<>>)
    IN  IF shortUrl = <<>> THEN <<CHARACTERS[1]>> ELSE shortUrl

\* The for loop of decodeShortUrl that skips a character outside the alphabet
\* instead of throwing.
RECURSIVE DecodeLoopSkip(_, _, _)
DecodeLoopSkip(shortCode, i, id) ==
    IF i > Len(shortCode)
    THEN [threw |-> FALSE, id |-> id]
    ELSE CHOOSE r \in { DecodeLoopSkip(shortCode, i + 1,
                                       IF charIndex = 0 - 1 THEN id
                                       ELSE NumMulBaseAdd(id, charIndex)) :
                        charIndex \in {IndexOf(shortCode[i])} } : TRUE

\* The for loop of decodeShortUrl from position i with accumulator id: the
\* decoded number, or the character that the thrown Error names.
RECURSIVE DecodeLoop(_, _, _)
DecodeLoop(shortCode, i, id) ==
    IF i > Len(shortCode)
    THEN [threw |-> FALSE, id |-> id]
    ELSE CHOOSE r \in { IF charIndex = 0 - 1
                        THEN [threw |-> TRUE, char |-> shortCode[i]]
                        ELSE DecodeLoop(shortCode, i + 1, NumMulBaseAdd(id, charIndex)) :
                        charIndex \in {IndexOf(shortCode[i])} } : TRUE

\* decodeShortUrl with the for loop started at the second character.
decodeShortUrlFromSecond(shortCode) == DecodeLoop(shortCode, 2, FromInt(0))

decodeShortUrl(shortCode) == DecodeLoop(shortCode, 1, FromInt(0))

(***************************************************************************)
(* utils.ts: options, the store, buildShortUrl                             *)
(***************************************************************************)
\* Options are functions from option names to values; an option the caller
\* leaves out is not in the domain.  f @@ g is the spread {...g, ...f}.
DEFAULT_SHORT_URL_OPTIONS ==
    [ domain              |-> <<115, 104, 111, 114, 116, 46, 117, 114, 108>>,
      includeRedirectPath |-> TRUE,
      redirectPathSegment |-> <<114>>,
      includeProtocol     |-> FALSE,
      protocol            |-> <<104, 116, 116, 112, 115>>,
      pathSeparator       |-> <<47>> ]

\* The value a lookup of an absent key returns; no string is equal to it.
undefined == <<0 - 1>>

\* storeUrlMapping that replaces the map by one holding only the new entry.
storeUrlMappingReplace(storage, id, originalUrl) == [k \in {id} |-> originalUrl]

\* urlStorage.set(id, originalUrl) on the map `storage`
storeUrlMapping(storage, id, originalUrl) ==
    [k \in DOMAIN storage \cup {id} |-> IF k = id THEN originalUrl ELSE storage[k]]

\* urlStorage.get(id) on the map `storage`
getOriginalUrl(storage, id) ==
    IF id \in DOMAIN storage THEN storage[id] ELSE undefined

\* The options object of buildShortUrl (the caller passes an object).
BuildOpts(options) == options @@ DEFAULT_SHORT_URL_OPTIONS

\* The short code joined with a literal "/" instead of opts.pathSeparator.
BuildUrlSlash(opts, shortCode) ==
    LET protocol == IF opts.includeProtocol /\ opts.protocol # <<>>
                    THEN opts.protocol \o <<58, 47, 47>> ELSE <<>>
        redirect == IF opts.includeRedirectPath /\ opts.redirectPathSegment # <<>>
                    THEN opts.pathSeparator \o opts.redirectPathSegment ELSE <<>>
    IN  protocol \o opts.domain \o redirect \o <<47>> \o shortCode

\* url = [protocol + "://"] + domain + [pathSeparator + redirectPathSegment]
\*       + pathSeparator + shortCode
BuildUrl(opts, shortCode) ==
    LET protocol == IF opts.includeProtocol /\ opts.protocol # <<>>
                    THEN opts.protocol \o <<58, 47, 47>> ELSE <<>>
        redirect == IF opts.includeRedirectPath /\ opts.redirectPathSegment # <<>>
                    THEN opts.pathSeparator \o opts.redirectPathSegment ELSE <<>>
    IN  protocol \o opts.domain \o redirect \o opts.pathSeparator \o shortCode

buildShortUrl(id, options) ==
    CHOOSE url \in { BuildUrl(opts, encodeId(id)) : opts \in {BuildOpts(options)} } : TRUE

(***************************************************************************)
(* index.ts: createShortUrl                                                *)
(***************************************************************************)
DEFAULT_CREATE_OPTIONS == [hashAlgorithm |-> "djb2"] @@ DEFAULT_SHORT_URL_OPTIONS

\* { ...DEFAULT_CREATE_OPTIONS, domain, ...options }
CreateOpts(domain, options) ==
    options @@ [domain |-> domain] @@ DEFAULT_CREATE_OPTIONS

\* hash = (hash << 5) + hash + char
Djb2Step(hash, char) == NumAdd(NumAdd(ShiftLeft(hash, 5), hash), FromInt(char))

\* hash = char + (hash << 6) + (hash << 16) - hash
SdbmStep(hash, char) ==
    NumSub(NumAdd(NumAdd(FromInt(char), ShiftLeft(hash, 6)), ShiftLeft(hash, 16)), hash)

RECURSIVE Djb2Loop(_, _, _)
Djb2Loop(longUrl, i, hash) ==
    IF i > Len(longUrl) THEN hash
    ELSE CHOOSE r \in { Djb2Loop(longUrl, i + 1, h) :
                        h \in {Djb2Step(hash, longUrl[i])} } : TRUE

RECURSIVE SdbmLoop(_, _, _)
SdbmLoop(longUrl, i, hash) ==
    IF i > Len(longUrl) THEN hash
    ELSE CHOOSE r \in { SdbmLoop(longUrl, i + 1, h) :
                        h \in {SdbmStep(hash, longUrl[i])} } : TRUE

\* The functions the model passes as customHashFn: the length of the URL, and
\* its negation less one.
CustomHashFns == {"length", "negated"}

ApplyCustomHashFn(fn, longUrl) ==
    IF fn = "length" THEN FromInt(Len(longUrl)) ELSE FromInt(0 - Len(longUrl) - 1)

HasCustomHashFn(opts) == "customHashFn" \in DOMAIN opts

\* The branches of createShortUrl with "custom" and no customHashFn taking
\* the sdbm branch instead of the final else.
HashOfCustomSdbm(longUrl, opts) ==
    IF opts.hashAlgorithm = "custom" /\ HasCustomHashFn(opts)
    THEN ApplyCustomHashFn(opts.customHashFn, longUrl)
    ELSE IF opts.hashAlgorithm \in {"sdbm", "custom"}
         THEN SdbmLoop(longUrl, 1, FromInt(0))
         ELSE Djb2Loop(longUrl, 1, FromInt(5381))

\* The three branches that compute `hash` in createShortUrl.
HashOf(longUrl, opts) ==
    IF opts.hashAlgorithm = "custom" /\ HasCustomHashFn(opts)
    THEN ApplyCustomHashFn(opts.customHashFn, longUrl)
    ELSE IF opts.hashAlgorithm = "sdbm"
         THEN SdbmLoop(longUrl, 1, FromInt(0))
         ELSE Djb2Loop(longUrl, 1, FromInt(5381))

\* An identifier taken from the size of the store instead of the hash.
PositiveHashCounter(longUrl, opts) == FromInt(Cardinality(DOMAIN urlStorage))

\* const positiveHash = Math.abs(hash)
PositiveHash(longUrl, opts) ==
    CHOOSE r \in { MathAbs(hash) : hash \in {HashOf(longUrl, opts)} } : TRUE

(***************************************************************************)
(* index.ts: extractShortCode, decodeUrl                                   *)
(***************************************************************************)
IsPrefix(p, s) == Len(p) <= Len(s) /\ SubSeq(s, 1, Len(p)) = p

DropFirst(s, n) == SubSeq(s, n + 1, Len(s))

\* shortUrl.replace(/^https?:\/\//, "")
StripProtocol(shortUrl) ==
    IF IsPrefix(<<104, 116, 116, 112, 58, 47, 47>>, shortUrl)
    THEN DropFirst(shortUrl, 7)
    ELSE IF IsPrefix(<<104, 116, 116, 112, 115, 58, 47, 47>>, shortUrl)
         THEN DropFirst(shortUrl, 8)
         ELSE shortUrl

\* parts = s.split("/"); parts[parts.length - 1]: what follows the last "/".
LastPart(s) ==
    LET slashes == {i \in 1..Len(s) : s[i] = 47}
    IN  IF slashes = {} THEN s
        ELSE DropFirst(s, CHOOSE i \in slashes : \A j \in slashes : j <= i)

\* parts[0] instead of parts[parts.length - 1]: what precedes the first "/".
FirstPart(s) ==
    LET slashes == {i \in 1..Len(s) : s[i] = 47}
    IN  IF slashes = {} THEN s
        ELSE SubSeq(s, 1, (CHOOSE i \in slashes : \A j \in slashes : i <= j) - 1)

extractShortCodeFirstPart(shortUrl) == FirstPart(StripProtocol(shortUrl))

extractShortCode(shortUrl) == LastPart(StripProtocol(shortUrl))

\* decodeUrl with the catch clause left out: the Error of decodeShortUrl reaches
\* the caller (the value <<-2, char>> stands for the propagated Error).
decodeUrlNoCatch(storage, shortUrl) ==
    CHOOSE r \in { IF decoded.threw THEN <<0 - 2, decoded.char>>
                   ELSE getOriginalUrl(storage, decoded.id) :
                   decoded \in {decodeShortUrl(extractShortCode(shortUrl))} } : TRUE

\* try { return getOriginalUrl(decodeShortUrl(extractShortCode(shortUrl))) }
\* catch { return undefined }
decodeUrl(storage, shortUrl) ==
    CHOOSE r \in { IF decoded.threw THEN undefined
                   ELSE getOriginalUrl(storage, decoded.id) :
                   decoded \in {decodeShortUrl(extractShortCode(shortUrl))} } : TRUE

(***************************************************************************)
(* Inputs                                                                  *)
(***************************************************************************)
MaxStored == 2

MaxHashLen == 6

MaxCodeLen == 3

MaxSmallId == 70

MaxPipe == 4

StringsUpTo(chars, n) ==
    UNION { { SubSeq(f, 1, k) : f \in [1..k -> chars] } : k \in 0..n }

\* "", "6W" and "76" (equal under djb2), "666666" (djb2 above 2^31, sdbm
\* negative), "6W6666" (djb2 negative).
LongUrls ==
    { <<>>, <<54, 87>>, <<55, 54>>, <<54, 54, 54, 54, 54, 54>>,
      <<54, 87, 54, 54, 54, 54>> }

\* "short.url", "t.co"
Domains == { <<115, 104, 111, 114, 116, 46, 117, 114, 108>>, <<116, 46, 99, 111>> }

\* The options argument: none, sdbm, a protocol.
CreateOptions ==
    { <<>>, [hashAlgorithm |-> "sdbm"], [includeProtocol |-> TRUE] }

\* "short.url/r/ABC123", "short.url/r/ABC$123", "https://short.url/r/BYx",
\* "short.url/r/", "BYx", "http://", "t.co/r/-"
DecodeProbes ==
    { <<115, 104, 111, 114, 116, 46, 117, 114, 108, 47, 114, 47, 65, 66, 67, 49, 50, 51>>,
      <<115, 104, 111, 114, 116, 46, 117, 114, 108, 47, 114, 47, 65, 66, 67, 36, 49, 50, 51>>,
      <<104, 116, 116, 112, 115, 58, 47, 47, 115, 104, 111, 114, 116, 46, 117, 114, 108,
        47, 114, 47, 66, 89, 120>>,
      <<115, 104, 111, 114, 116, 46, 117, 114, 108, 47, 114, 47>>,
      <<66, 89, 120>>,
      <<104, 116, 116, 112, 58, 47, 47>>,
      <<116, 46, 99, 111, 47, 114, 47, 45>> }

\* The characters of the hashed strings: "6", "7", "W".
HashChars == {54, 55, 87}

\* The characters of the decoded codes: "A", "b", "9", "$", "-".
CodeChars == {65, 98, 57, 36, 45}

\* 61, 62, 63, 62^2 - 1, 62^2, 62^3, 62^4, 62^5, 2^31 - 1, 2^31, 2^31 + 1,
\* 2^32 + 5 and 62^6.
IdProbes ==
    { FromInt(n) : n \in {3843, 3844, 238328, 14776336, 916132832} }
    \cup { [hi |-> 32767, lo |-> 65535], [hi |-> 32768, lo |-> 0],
           [hi |-> 32768, lo |-> 1], [hi |-> 65536, lo |-> 5],
           [hi |-> 866701, lo |-> 34880] }

\* Longer codes: "999999" (62^6 - 1), "A999999", "AAAAb", "AAAAA".
CodeProbes ==
    { <<57, 57, 57, 57, 57, 57>>, <<65, 57, 57, 57, 57, 57, 57>>,
      <<65, 65, 65, 65, 98>>, <<65, 65, 65, 65, 65>> }

PipeInputs ==
    { [t |-> "url", url |-> u, alg |-> a] :
          u \in StringsUpTo(HashChars, MaxHashLen), a \in {"djb2", "sdbm"} }
    \cup { [t |-> "id", id |-> FromInt(n)] : n \in 0..MaxSmallId }
    \cup { [t |-> "id", id |-> n] : n \in IdProbes }
    \cup { [t |-> "code", code |-> c] : c \in StringsUpTo(CodeChars, MaxCodeLen) }
    \cup { [t |-> "code", code |-> c] : c \in CodeProbes }

(***************************************************************************)
(* The store machine: calls of createShortUrl and decodeUrl                *)
(***************************************************************************)
NoCall == [op |-> "none"]

Init ==
    /\ urlStorage = <<>>
    /\ last = NoCall
    /\ remembered = NoCall
    /\ overwritten = FALSE
    /\ pipe = <<>>

\* createShortUrl(longUrl, domain, options).  The store is capped at MaxStored
\* identifiers.
CreateShortUrl(longUrl, domain, options) ==
    \E opts \in {CreateOpts(domain, options)} :
    \E positiveHash \in {PositiveHash(longUrl, opts)} :
    \E call \in { [ op |-> "createShortUrl", longUrl |-> longUrl,
                    domain |-> domain, options |-> options,
                    id |-> positiveHash,
                    result |-> buildShortUrl(positiveHash, opts) ] } :
        /\ pipe = <<>>
        /\ \/ positiveHash \in DOMAIN urlStorage
           \/ Cardinality(DOMAIN urlStorage) < MaxStored
        /\ urlStorage' = storeUrlMapping(urlStorage, positiveHash, longUrl)
        /\ last' = call
        /\ \/ /\ remembered' = call
              /\ overwritten' = FALSE
           \/ /\ remembered' = remembered
              /\ overwritten' =
                    (\/ overwritten
                     \/ /\ remembered # NoCall
                        /\ remembered.id = positiveHash
                        /\ remembered.longUrl # longUrl)
        /\ UNCHANGED pipe

\* The short URLs handed to decodeUrl: the probes and the ones returned so far.
DecodeInputs ==
    DecodeProbes
    \cup (IF last.op = "createShortUrl" THEN {last.result} ELSE {})
    \cup (IF remembered # NoCall THEN {remembered.result} ELSE {})

\* decodeUrl that removes the mapping it looked up (a link that works once).
DecodeUrlDeleting(shortUrl) ==
    \E decoded \in {decodeShortUrl(extractShortCode(shortUrl))} :
        /\ pipe = <<>>
        /\ last' = [ op |-> "decodeUrl", shortUrl |-> shortUrl,
                     result |-> decodeUrl(urlStorage, shortUrl) ]
        /\ urlStorage' = IF decoded.threw THEN urlStorage
                         ELSE [k \in DOMAIN urlStorage \ {decoded.id} |-> urlStorage[k]]
        /\ UNCHANGED <<remembered, overwritten, pipe>>

\* decodeUrl(shortUrl)
DecodeUrl(shortUrl) ==
    /\ pipe = <<>>
    /\ last' = [ op |-> "decodeUrl", shortUrl |-> shortUrl,
                 result |-> decodeUrl(urlStorage, shortUrl) ]
    /\ UNCHANGED <<urlStorage, remembered, overwritten, pipe>>

Next ==
    \/ \E longUrl \in LongUrls, domain \in Domains, options \in CreateOptions :
           CreateShortUrl(longUrl, domain, options)
    \/ \E shortUrl \in DecodeInputs : DecodeUrl(shortUrl)

Spec == Init /\ [][Next]_vars

(***************************************************************************)
(* The pure functions, applied in a chain to one input                     *)
(***************************************************************************)
InitPipe ==
    /\ urlStorage = <<>>
    /\ last = NoCall
    /\ remembered = NoCall
    /\ overwritten = FALSE
    /\ pipe \in { <<input>> : input \in PipeInputs }

Top == pipe[Len(pipe)]

CanApply(t) == Len(pipe) > 0 /\ Len(pipe) < MaxPipe /\ Top.t = t

\* The hash and Math.abs of createShortUrl on a URL.
ApplyHash ==
    /\ CanApply("url")
    /\ pipe' = Append(pipe, [ t  |-> "id",
                              id |-> PositiveHash(Top.url, CreateOpts(<<>>, [hashAlgorithm |-> Top.alg])) ])
    /\ UNCHANGED <<urlStorage, last, remembered, overwritten>>

\* encodeId on an identifier.
ApplyEncodeId ==
    /\ CanApply("id")
    /\ pipe' = Append(pipe, [t |-> "code", code |-> encodeId(Top.id)])
    /\ UNCHANGED <<urlStorage, last, remembered, overwritten>>

\* decodeShortUrl on a code: the identifier, or the Error and its character.
ApplyDecodeShortUrl ==
    /\ CanApply("code")
    /\ pipe' = Append(pipe, LET decoded == decodeShortUrl(Top.code)
                            IN  IF decoded.threw
                                THEN [t |-> "error", char |-> decoded.char]
                                ELSE [t |-> "id", id |-> decoded.id])
    /\ UNCHANGED <<urlStorage, last, remembered, overwritten>>

NextPipe == ApplyHash \/ ApplyEncodeId \/ ApplyDecodeShortUrl

SpecPipe == InitPipe /\ [][NextPipe]_vars

(***************************************************************************)
(* The store machine under the documented configurations                   *)
(***************************************************************************)
\* "6W", "666666"
ConfigUrls == { <<54, 87>>, <<54, 54, 54, 54, 54, 54>> }

\* "short.url"
ConfigDomains == { <<115, 104, 111, 114, 116, 46, 117, 114, 108>> }

\* The URL formats: the ones of the README (no redirect path, segment "goto",
\* separator "-", a protocol), a protocol "http", an empty protocol, an empty
\* segment, a protocol without includeProtocol, and two combinations.
FormatOptionSets ==
    { <<>>,
      [includeRedirectPath |-> FALSE],
      [redirectPathSegment |-> <<103, 111, 116, 111>>],
      [pathSeparator |-> <<45>>],
      [includeProtocol |-> TRUE],
      [includeProtocol |-> TRUE, protocol |-> <<104, 116, 116, 112>>],
      [includeProtocol |-> TRUE, protocol |-> <<>>],
      [redirectPathSegment |-> <<>>],
      [protocol |-> <<102, 116, 112>>],
      [includeProtocol |-> TRUE, includeRedirectPath |-> FALSE, pathSeparator |-> <<45>>],
      [includeProtocol |-> TRUE, protocol |-> <<102, 116, 112>>,
       redirectPathSegment |-> <<103, 111, 116, 111>>] }

\* The options argument of createShortUrl: a URL format, or a hash algorithm
\* (djb2, and "custom" without and with a customHashFn).
ConfigOptions ==
    FormatOptionSets
    \cup { [hashAlgorithm |-> "djb2"],
           [hashAlgorithm |-> "custom"],
           [hashAlgorithm |-> "custom", customHashFn |-> "length"],
           [hashAlgorithm |-> "custom", customHashFn |-> "negated"] }

\* The options argument of buildShortUrl: a URL format and the domain.
BuildOptions ==
    { options @@ [domain |-> domain] :
          options \in FormatOptionSets, domain \in ConfigDomains }

\* 0, 12345
BuildIds == { FromInt(0), FromInt(12345) }

\* buildShortUrl(id, options)
BuildShortUrl(id, options) ==
    /\ pipe = <<>>
    /\ last' = [ op |-> "buildShortUrl", id |-> id, options |-> options,
                 result |-> buildShortUrl(id, options) ]
    /\ UNCHANGED <<urlStorage, remembered, overwritten, pipe>>

NextConfig ==
    \/ \E longUrl \in ConfigUrls, domain \in ConfigDomains, options \in ConfigOptions :
           CreateShortUrl(longUrl, domain, options)
    \/ \E shortUrl \in DecodeInputs : DecodeUrl(shortUrl)
    \/ \E id \in BuildIds, options \in BuildOptions : BuildShortUrl(id, options)

SpecConfig == Init /\ [][NextConfig]_vars

(***************************************************************************)
(* Properties                                                              *)
(***************************************************************************)
Alphabet == { CHARACTERS[i] : i \in 1..Len(CHARACTERS) }

HasInvalidChar(code) == \E i \in 1..Len(code) : code[i] \notin Alphabet

FirstInvalidChar(code) ==
    code[CHOOSE i \in 1..Len(code) :
            /\ code[i] \notin Alphabet
            /\ \A j \in 1..(i - 1) : code[j] \in Alphabet]

\* The call used a built-in hash algorithm and the default URL format.
BuiltinDefault(options) ==
    /\ DOMAIN options \subseteq {"hashAlgorithm"}
    /\ \A k \in DOMAIN options : options[k] \in {"djb2", "sdbm"}

SameArguments(a, b) ==
    a.longUrl = b.longUrl /\ a.domain = b.domain /\ a.options = b.options

TwoPow31 == [hi |-> HalfLimb, lo |-> 0]

\* The positions of the chain that hold a value of kind t with a successor.
Applied(t) == { i \in 1..(Len(pipe) - 1) : pipe[i].t = t }

\* C1: right after createShortUrl(u, d) with default options and a built-in
\* hash algorithm returned s, decodeUrl(s) returns exactly u.
C1_RoundTrip ==
    (last.op = "createShortUrl" /\ BuiltinDefault(last.options))
        => decodeUrl(urlStorage, last.result) = last.longUrl

\* "666666" (identifier above 2^31) was just shortened and decodes to itself.
C1_Witness ==
    /\ last.op = "createShortUrl"
    /\ last.options = <<>>
    /\ last.longUrl = <<54, 54, 54, 54, 54, 54>>
    /\ ~ NumLeq(last.id, TwoPow31)
    /\ decodeUrl(urlStorage, last.result) = last.longUrl

\* C2 as stated: a short URL that createShortUrl(u, d) returned keeps decoding
\* to u after any further createShortUrl and decodeUrl calls.
C2_KeepsResolving ==
    (remembered # NoCall /\ BuiltinDefault(remembered.options))
        => decodeUrl(urlStorage, remembered.result) = remembered.longUrl

\* C2 amended: a short URL that createShortUrl(u, d) returned keeps decoding
\* to u after further calls, as long as no later createShortUrl call for a
\* different long URL computed the identifier of u.
C2_KeepsResolvingUnlessOverwritten ==
    (remembered # NoCall /\ BuiltinDefault(remembered.options) /\ ~ overwritten)
        => decodeUrl(urlStorage, remembered.result) = remembered.longUrl

\* A later createShortUrl call stored another URL at another identifier, a
\* decodeUrl call followed, and the remembered short URL still decodes.
C2_Witness ==
    /\ remembered # NoCall
    /\ BuiltinDefault(remembered.options)
    /\ ~ overwritten
    /\ last.op = "decodeUrl"
    /\ \E id \in DOMAIN urlStorage : urlStorage[id] # remembered.longUrl
    /\ decodeUrl(urlStorage, remembered.result) = remembered.longUrl

\* C3: decodeShortUrl(encodeId(n)) = n for every integer n with 0 <= n < 2^31.
C3_CodecRoundTrip ==
    \A i \in Applied("id") :
        (i + 2 <= Len(pipe) /\ NumLeq(FromInt(0), pipe[i].id)
                            /\ ~ NumLeq(TwoPow31, pipe[i].id))
            => (pipe[i + 2].t = "id" /\ pipe[i + 2].id = pipe[i].id)

\* 2^31 - 1 was encoded and decoded back.
C3_Witness ==
    /\ Len(pipe) >= 3
    /\ pipe[1] = [t |-> "id", id |-> [hi |-> HalfLimb - 1, lo |-> Limb - 1]]
    /\ pipe[2].t = "code"
    /\ pipe[3] = pipe[1]

\* C4: two createShortUrl calls with the same arguments (built-in algorithm)
\* return the same short URL, whatever the store held at either call.
C4_Idempotent ==
    (/\ remembered # NoCall
     /\ last.op = "createShortUrl"
     /\ SameArguments(last, remembered)
     /\ BuiltinDefault(last.options))
        => last.result = remembered.result

\* The remembered call was repeated after a call for another URL had stored
\* at its identifier in between.
C4_Witness ==
    /\ remembered # NoCall
    /\ overwritten
    /\ last.op = "createShortUrl"
    /\ SameArguments(last, remembered)
    /\ BuiltinDefault(last.options)
    /\ last.result = remembered.result

\* C5: decodeUrl returns undefined or a stored URL, never an error: undefined
\* when the last segment has a character outside the alphabet, and undefined
\* when the segment is well formed and its identifier has no mapping.
C5_DecodeUrlNeverThrows ==
    last.op = "decodeUrl" =>
        LET shortCode == extractShortCode(last.shortUrl)
        IN  /\ \/ last.result = undefined
               \/ \E id \in DOMAIN urlStorage : urlStorage[id] = last.result
            /\ HasInvalidChar(shortCode) => last.result = undefined
            /\ (/\ ~ HasInvalidChar(shortCode)
                /\ decodeShortUrl(shortCode).id \notin DOMAIN urlStorage)
                  => last.result = undefined

\* "short.url/r/ABC$123" was decoded to undefined with a non-empty store.
C5_Witness ==
    /\ last.op = "decodeUrl"
    /\ HasInvalidChar(extractShortCode(last.shortUrl))
    /\ urlStorage # <<>>
    /\ last.result = undefined

\* C6: decodeShortUrl throws exactly when the code has a character outside
\* the alphabet, and the error names the leftmost such character.
C6_InvalidCharacter ==
    \A i \in Applied("code") :
        /\ pipe[i + 1].t = "error" <=> HasInvalidChar(pipe[i].code)
        /\ pipe[i + 1].t = "error" => pipe[i + 1].char = FirstInvalidChar(pipe[i].code)
        /\ ~ HasInvalidChar(pipe[i].code) => pipe[i + 1].t = "id"

\* "A-$" was decoded: the error names "-", not "$".
C6_Witness ==
    /\ Len(pipe) = 2
    /\ pipe[1] = [t |-> "code", code |-> <<65, 45, 36>>]
    /\ pipe[2] = [t |-> "error", char |-> 45]

\* C7 as stated: every identifier that createShortUrl stores (djb2 or sdbm)
\* is an integer in [0, 2^31].
C7_IdentifierRange ==
    \A id \in DOMAIN urlStorage :
        NumLeq(FromInt(0), id) /\ NumLeq(id, TwoPow31)

\* The reference hash of C8: from 5381, hash := (hash * 33 + c) wrapped to a
\* signed 32-bit integer after every step.
RECURSIVE ReferenceDjb2(_, _, _)
ReferenceDjb2(str, i, hash) ==
    IF i > Len(str) THEN hash
    ELSE CHOOSE r \in { ReferenceDjb2(str, i + 1, h) :
                        h \in { ToInt32(NumAdd(Norm(hash.hi * 33, hash.lo * 33),
                                               FromInt(str[i]))) } } : TRUE

\* C8 as stated: the djb2 identifier is the absolute value of the reference
\* hash that wraps to 32 bits after every step.
C8_Djb2Reference ==
    \A i \in Applied("url") :
        pipe[i].alg = "djb2"
            => pipe[i + 1].id = MathAbs(ReferenceDjb2(pipe[i].url, 1, FromInt(5381)))

\* C9 as stated: two different long URLs, same domain and options, get
\* different short URLs.
C9_DistinctShortUrls ==
    (/\ remembered # NoCall
     /\ last.op = "createShortUrl"
     /\ last.longUrl # remembered.longUrl
     /\ last.domain = remembered.domain
     /\ last.options = remembered.options)
        => last.result # remembered.result

\* C9 amended: two different long URLs, same domain and options, get
\* different short URLs exactly when their identifiers (the absolute values
\* of their hashes) differ.
C9_DistinctUnlessSameIdentifier ==
    (/\ remembered # NoCall
     /\ last.op = "createShortUrl"
     /\ last.longUrl # remembered.longUrl
     /\ last.domain = remembered.domain
     /\ last.options = remembered.options)
        => (last.result # remembered.result <=> last.id # remembered.id)

\* Two different long URLs with different identifiers were shortened under
\* the same domain and options.
C9_Witness ==
    /\ remembered # NoCall
    /\ last.op = "createShortUrl"
    /\ last.longUrl # remembered.longUrl
    /\ last.domain = remembered.domain
    /\ last.options = remembered.options
    /\ last.id # remembered.id
    /\ last.result # remembered.result

\* C10: encodeId of a non-negative integer is never empty, has only alphabet
\* characters, and encodeId(0) is "A".
C10_EncodeIdNonEmpty ==
    \A i \in Applied("id") :
        /\ pipe[i + 1].code # <<>>
        /\ \A j \in 1..Len(pipe[i + 1].code) : pipe[i + 1].code[j] \in Alphabet
        /\ pipe[i].id = FromInt(0) => pipe[i + 1].code = <<65>>

\* 0 was encoded to "A".
C10_Witness ==
    /\ Len(pipe) >= 2
    /\ pipe[1] = [t |-> "id", id |-> FromInt(0)]
    /\ pipe[2] = [t |-> "code", code |-> <<65>>]

\* The value of an option: the caller's when the object has it, else the default.
Option(options, key, default) ==
    IF key \in DOMAIN options THEN options[key] ELSE default

\* The domain of the last call: an argument of createShortUrl, an option of
\* buildShortUrl.
DomainOf(call) ==
    IF call.op = "createShortUrl" THEN call.domain ELSE call.options.domain

\* [protocol + "://" when withProtocol] + domain
\*   + [pathSeparator + redirectPathSegment when withRedirect]
\*   + pathSeparator + shortCode, absent options taking the documented defaults.
Assembled(options, domain, shortCode, withProtocol, withRedirect) ==
    LET protocol  == Option(options, "protocol", <<104, 116, 116, 112, 115>>)
        segment   == Option(options, "redirectPathSegment", <<114>>)
        separator == Option(options, "pathSeparator", <<47>>)
    IN  (IF withProtocol THEN protocol \o <<58, 47, 47>> ELSE <<>>)
        \o domain
        \o (IF withRedirect THEN separator \o segment ELSE <<>>)
        \o separator \o shortCode

\* C11 as stated: buildShortUrl returns [protocol + "://" when includeProtocol]
\* + domain + [pathSeparator + redirectPathSegment when includeRedirectPath]
\* + pathSeparator + encodeId(id), and createShortUrl returns this string for
\* the identifier it computed.
C11_UrlAssembly ==
    last.op \in {"buildShortUrl", "createShortUrl"} =>
        last.result = Assembled(last.options, DomainOf(last), encodeId(last.id),
                                Option(last.options, "includeProtocol", FALSE),
                                Option(last.options, "includeRedirectPath", TRUE))

\* C11 amended: the protocol part is present when includeProtocol is set and
\* protocol is not the empty string, the redirect part when includeRedirectPath
\* is set and redirectPathSegment is not the empty string.
C11_UrlAssemblyNonEmpty ==
    last.op \in {"buildShortUrl", "createShortUrl"} =>
        last.result = Assembled(last.options, DomainOf(last), encodeId(last.id),
                                /\ Option(last.options, "includeProtocol", FALSE)
                                /\ Option(last.options, "protocol", <<104>>) # <<>>,
                                /\ Option(last.options, "includeRedirectPath", TRUE)
                                /\ Option(last.options, "redirectPathSegment", <<114>>) # <<>>)

\* createShortUrl with protocol "ftp" and segment "goto" returned
\* "ftp://short.url/goto/" and the code of the identifier it stored.
C11_Witness ==
    /\ last.op = "createShortUrl"
    /\ last.options = [includeProtocol |-> TRUE, protocol |-> <<102, 116, 112>>,
                       redirectPathSegment |-> <<103, 111, 116, 111>>]
    /\ last.id \in DOMAIN urlStorage
    /\ last.result = <<102, 116, 112, 58, 47, 47,
                       115, 104, 111, 114, 116, 46, 117, 114, 108,
                       47, 103, 111, 116, 111, 47>> \o encodeId(last.id)

\* s with its leading "A" characters removed.
RECURSIVE StripLeadingA(_)
StripLeadingA(s) ==
    IF s # <<>> /\ s[1] = 65 THEN StripLeadingA(Tail(s)) ELSE s

\* The canonical code of the value of s: s without its leading "A"s, or "A"
\* when nothing remains.
Canonical(s) ==
    IF StripLeadingA(s) = <<>> THEN <<65>> ELSE StripLeadingA(s)

\* The positions of the chain where a code of alphabet characters was decoded
\* and the identifier encoded again.
Recoded == { i \in Applied("code") : ~ HasInvalidChar(pipe[i].code) /\ i + 2 <= Len(pipe) }

\* C12 as stated: for every string s of alphabet characters,
\* encodeId(decodeShortUrl(s)) is s with its leading "A"s removed, or "A" when
\* nothing remains; it decodes to the same identifier as s; and it is s itself
\* when s has no leading "A" or s = "A".
C12_CanonicalForm ==
    \A i \in Recoded :
        /\ pipe[i + 2].code = Canonical(pipe[i].code)
        /\ i + 3 <= Len(pipe) => pipe[i + 3] = pipe[i + 1]
        /\ (pipe[i].code = <<65>> \/ pipe[i].code = <<>> \/ pipe[i].code[1] # 65)
              => pipe[i + 2].code = pipe[i].code

\* C12 amended: the result is s itself when s is not empty and has no leading
\* "A", or s = "A"; the empty string gives "A".
C12_CanonicalFormNonEmpty ==
    \A i \in Recoded :
        /\ pipe[i + 2].code = Canonical(pipe[i].code)
        /\ i + 3 <= Len(pipe) => pipe[i + 3] = pipe[i + 1]
        /\ (pipe[i].code = <<65>> \/ (pipe[i].code # <<>> /\ pipe[i].code[1] # 65))
              => pipe[i + 2].code = pipe[i].code
        /\ pipe[i].code = <<>> => pipe[i + 2].code = <<65>>

\* "A999999" was decoded to 62^6 - 1, encoded to "999999" and decoded again
\* to the same identifier.
C12_Witness ==
    /\ Len(pipe) = 4
    /\ pipe[1] = [t |-> "code", code |-> <<65, 57, 57, 57, 57, 57, 57>>]
    /\ pipe[2].t = "id"
    /\ pipe[3] = [t |-> "code", code |-> <<57, 57, 57, 57, 57, 57>>]
    /\ pipe[4] = pipe[2]

\* C13: a decodeUrl step leaves the store exactly as it was; an identifier
\* that has a mapping never loses it; the store changes only in createShortUrl
\* steps, and there only at the identifier computed for that call, which then
\* maps to the long URL of the call.
C13_StoreFrame ==
    [][ /\ last'.op = "decodeUrl" => urlStorage' = urlStorage
        /\ DOMAIN urlStorage \subseteq DOMAIN urlStorage'
        /\ urlStorage' # urlStorage => last'.op = "createShortUrl"
        /\ last'.op = "createShortUrl" =>
              /\ last'.id \in DOMAIN urlStorage'
              /\ urlStorage'[last'.id] = last'.longUrl
              /\ \A id \in DOMAIN urlStorage' \ {last'.id} :
                    id \in DOMAIN urlStorage /\ urlStorage'[id] = urlStorage[id] ]_vars

\* decodeUrl found a URL in a store of at least two mappings, which are all
\* still there.
C13_Witness ==
    /\ last.op = "decodeUrl"
    /\ last.result # undefined
    /\ Cardinality(DOMAIN urlStorage) >= 2
    /\ \E id \in DOMAIN urlStorage : urlStorage[id] = last.result

\* The call selected "custom" and supplied no customHashFn.
CustomWithoutFn(call) ==
    /\ call.op = "createShortUrl"
    /\ call.options = [hashAlgorithm |-> "custom"]

\* The call selected djb2, by name or by default.
Djb2Call(call) ==
    /\ call.op = "createShortUrl"
    /\ call.options \in { <<>>, [hashAlgorithm |-> "djb2"] }

\* The call selected "custom" and supplied the function fn.
CustomWith(call, fn) ==
    /\ call.op = "createShortUrl"
    /\ "hashAlgorithm" \in DOMAIN call.options
    /\ call.options.hashAlgorithm = "custom"
    /\ "customHashFn" \in DOMAIN call.options
    /\ call.options.customHashFn = fn

\* C14: a createShortUrl call with hashAlgorithm "custom" and no customHashFn
\* returns the short URL and stores the mapping of the call with djb2 for the
\* same long URL and domain, in whichever order the two calls come; with a
\* customHashFn the identifier is the absolute value of what the function
\* returned (the length of the URL; one more than the length for the
\* function that returns -length - 1).
C14_CustomFallback ==
    /\ \A a \in {last, remembered}, b \in {last, remembered} :
          (/\ CustomWithoutFn(a) /\ Djb2Call(b)
           /\ a.longUrl = b.longUrl /\ a.domain = b.domain)
              => /\ a.result = b.result
                 /\ a.id = b.id
                 /\ last.id \in DOMAIN urlStorage
                 /\ urlStorage[last.id] = last.longUrl
    /\ CustomWithoutFn(last) =>
          /\ last.id \in DOMAIN urlStorage
          /\ urlStorage[last.id] = last.longUrl
    /\ CustomWith(last, "length") =>
          /\ last.id = FromInt(Len(last.longUrl))
          /\ urlStorage[last.id] = last.longUrl
    /\ CustomWith(last, "negated") =>
          /\ last.id = FromInt(Len(last.longUrl) + 1)
          /\ urlStorage[last.id] = last.longUrl

\* "666666" was shortened with "custom" and no function, then with "djb2":
\* the same short URL came back.
C14_Witness ==
    /\ CustomWithoutFn(remembered)
    /\ last.op = "createShortUrl"
    /\ last.options = [hashAlgorithm |-> "djb2"]
    /\ last.longUrl = <<54, 54, 54, 54, 54, 54>>
    /\ remembered.longUrl = last.longUrl
    /\ last.result = remembered.result
    /\ urlStorage[last.id] = last.longUrl

\* The options of the call are among the documented URL-format options.
FormatOptions(options) ==
    DOMAIN options \subseteq { "includeProtocol", "protocol", "includeRedirectPath",
                               "redirectPathSegment", "pathSeparator" }

\* C15 as stated: for every combination of the URL-format options, a
\* pathSeparator other than "/" included, decodeUrl applied to the short URL
\* that createShortUrl(u, d, opts) just returned gives u.
C15_RoundTripEveryConfiguration ==
    (last.op = "createShortUrl" /\ FormatOptions(last.options))
        => decodeUrl(urlStorage, last.result) = last.longUrl

\* The round trip of the configurations that keep the "/" separator.
C15_RoundTripSlashSeparator ==
    (/\ last.op = "createShortUrl"
     /\ FormatOptions(last.options)
     /\ Option(last.options, "pathSeparator", <<47>>) = <<47>>)
        => decodeUrl(urlStorage, last.result) = last.longUrl

====
